---- MODULE Spec2Model ----
(***************************************************************************)
(* Model of src/streamlit_app.py: the "Comprehensive Company Analyst"      *)
(* Streamlit script.  One session is modelled: the secrets file and the    *)
(* import of exa_py are fixed at start-up, the user triggers script runs,  *)
(* and a run of main_app walks through the four provider fetches, the four *)
(* analyses, the executive summary and the report compilation.  The two    *)
(* st.cache_data caches and st.session_state persist between script runs.  *)
(***************************************************************************)
EXTENDS Integers, Sequences, FiniteSets, TLC

\* ---------------------------------------------------------------- bounds
MaxRuns == 2        \* "Analyze Company" runs started in the session
NumUrls == 2        \* companies the user can look up (one URL pair each)
MaxFaults == 1      \* provider or completion calls that meet a failing response
TimeStep == 3600    \* seconds one Tick adds (an entry is fresh, or a ttl old)

\* ------------------------------------------------------ program constants
TTL == 3600         \* @st.cache_data(ttl=3600)
max_retries == 3    \* get_jina_search_results(..., max_retries=3, delay=5)

KeyNames == {"jina", "openrouter", "exa", "rapidapi"}
Urls == 1..NumUrls
EmptyText == 0      \* the empty string of an st.text_input

\* ------------------------------------------------------------------ values
\* Every value a provider call, a completion call or a session key can hold
\* is a record of the same shape, so that any two can be compared.
Val(k, s, a, r) == [kind |-> k, src |-> s, arg |-> a, run |-> r]
\* Python's None
None == Val("None", "", 0, 0)
\* a local not yet assigned / a key not in st.session_state
Unset == Val("unset", "", 0, 0)
\* response.json() of provider fn for argument a, as served during run r:
\* the remote data is re-versioned between runs, so a fresh fetch is
\* distinguishable from a stored copy.
Data(fn, a, r) == Val("data", fn, a, r)
\* response.json()['choices'][0]['message']['content'] of a completion
Text(stage, r) == Val("text", stage, 0, r)
\* the same comprehension without its `if exa_results else None` guard
ExaDicts_NoGuard(v) == [v EXCEPT !.kind = "dicts"]
\* [result.__dict__ for result in exa_results] if exa_results else None
ExaDicts(v) == IF v = None THEN None ELSE [v EXCEPT !.kind = "dicts"]
\* f"{x}" inside the report template: None renders as the text "None"
Fmt(v) == IF v = None THEN Val("text", "None", 0, 0) ELSE v

\* The provider calls of main_app, named after the local each one assigns.
Providers == {"jina_results", "exa_results", "linkedin_data", "linkedin_posts"}
\* the two functions decorated with @st.cache_data
Cached == {"jina_results", "exa_results"}
AnalysisStages == {"company_info", "competitor_analysis",
                   "linkedin_profile_analysis", "linkedin_posts_analysis"}
Stages == AnalysisStages \cup {"executive_summary"}
HttpEvents == {"ok", "transient", "permanent", "http_error", "malformed"}

VARIABLES
    secrets,         \* keys present in st.secrets["secrets"]
    exa_available,   \* module-level flag set by the import of exa_py
    pc,              \* position of the script run inside main_app
    company_url,     \* arguments of the run in progress (or of the last one)
    linkedin_url,
    attempt,         \* loop variable of get_jina_search_results
    frame,           \* local variables of main_app
    context,         \* the local dict `context` of main_app
    cache,           \* st.cache_data stores of the two decorated functions
    session_state,   \* st.session_state
    stamp,           \* per session key, the run that last assigned it
    shown,           \* what the page shows after the last script run
    status,          \* how the last script run ended
    trace,           \* events of the run in progress (or of the last one)
    hist,            \* per provider, the last call made in an earlier run
    sinceRun,        \* seconds since the last run started (saturates at TTL)
    runs,            \* number of runs started
    faults           \* failing responses produced so far

vars == <<secrets, exa_available, pc, company_url, linkedin_url, attempt,
          frame, context, cache, session_state, stamp, shown, status,
          trace, hist, sinceRun, runs, faults>>

\* ---------------------------------------------------------------- helpers
Min(S) == CHOOSE x \in S : \A y \in S : x <= y
Later(t) == IF t + TimeStep >= TTL THEN TTL ELSE t + TimeStep

\* load_api_keys: the dict literal looks the keys up in this order and the
\* first missing one raises KeyError, which is reported with st.error; the
\* exa key is looked up only when exa_py was imported.
KeyOrder == <<"jina", "openrouter", "exa", "rapidapi">>
\* a dict literal that leaves the rapidapi entry out
LookedUp_NoRapidapi(k) == k \in {"jina", "openrouter"} \/ (k = "exa" /\ exa_available)
LookedUp(k) == k # "exa" \/ exa_available
MissingKeys == {i \in 1..Len(KeyOrder) :
                   LookedUp(KeyOrder[i]) /\ KeyOrder[i] \notin secrets}
load_api_keys ==
    IF MissingKeys = {}
    THEN [ok |-> TRUE, missing |-> ""]
    ELSE [ok |-> FALSE, missing |-> KeyOrder[Min(MissingKeys)]]

\* the same statements with the executive summary requested one analysis early
PcOrder_SummaryEarly ==
    <<"jina_results", "exa_results", "linkedin_data", "linkedin_posts",
      "store_raw",
      "company_info", "competitor_analysis", "linkedin_profile_analysis",
      "executive_summary", "linkedin_posts_analysis",
      "store_analyses", "compile">>
\* The order of the statements of the "Analyze Company" branch of main_app.
PcOrder == <<"jina_results", "exa_results", "linkedin_data", "linkedin_posts",
             "store_raw",
             "company_info", "competitor_analysis",
             "linkedin_profile_analysis", "linkedin_posts_analysis",
             "store_analyses", "executive_summary", "compile">>
PcIndex(p) == CHOOSE i \in 1..Len(PcOrder) : PcOrder[i] = p
After(p) == IF PcIndex(p) = Len(PcOrder) THEN "idle" ELSE PcOrder[PcIndex(p) + 1]

\* The argument each provider call is given by main_app.
ArgOf(fn) == IF fn \in {"jina_results", "exa_results"} THEN company_url
             ELSE linkedin_url

\* st.cache_data: an entry is served while it is younger than the ttl.
NoEntry == [value |-> Unset, age |-> TTL]
Live(e) == e # NoEntry /\ e.age < TTL
Lookup(fn, a) == cache[fn][a]
Store(fn, a, v) == [cache EXCEPT ![fn][a] = [value |-> v, age |-> 0]]

\* range(max_retries - 1): the loop gives up one attempt early
LastAttempt_OneShort(a) == a + 1 >= max_retries - 1
\* for attempt in range(max_retries): the attempt that ends the loop
LastAttempt(a) == a + 1 >= max_retries
\* if attempt < max_retries - 1: time.sleep(delay)
SleepsAfter(a) == a < max_retries - 1

Event(fn, ev) == [fn |-> fn, ev |-> ev]
NoCall == [arg |-> 0, result |-> Unset, age |-> TTL]
Called(fn) == \E i \in 1..Len(trace) :
                 trace[i].fn = fn /\ trace[i].ev \in HttpEvents \cup {"hit"}

UnsetFrame == [k \in Providers \cup Stages |-> Unset]
UnsetContext == [k \in Providers |-> Unset]
NoReport == <<>>
Blank == [kind |-> "nothing", report |-> NoReport,
          raw |-> [k \in Providers |-> Unset]]

\* The sections of the report template, top to bottom.
ReportOrder == <<"executive_summary", "company_info", "competitor_analysis",
                 "linkedin_profile_analysis", "linkedin_posts_analysis">>
FullReport(f) == [i \in 1..Len(ReportOrder) |->
                    [section |-> ReportOrder[i], body |-> Fmt(f[ReportOrder[i]])]]

\* The last block of main_app: the report, and every raw result that is
\* truthy, are shown when 'full_report' is in st.session_state.
Display(ss) ==
    IF ss.full_report = NoReport THEN Blank
    ELSE [kind |-> "report", report |-> ss.full_report,
          raw |-> [k \in Providers |->
                     IF ss[k] \in {Unset, None} THEN Unset ELSE ss[k]]]

\* ------------------------------------------------------------------- Init
Init ==
    /\ secrets \in SUBSET KeyNames
    /\ exa_available \in BOOLEAN
    /\ pc = "idle"
    /\ company_url = EmptyText
    /\ linkedin_url = EmptyText
    /\ attempt = 0
    /\ frame = UnsetFrame
    /\ context = UnsetContext
    /\ cache = [fn \in Cached |-> [a \in Urls |-> NoEntry]]
    /\ session_state = [k \in Providers \cup Stages |-> Unset]
                          @@ [full_report |-> NoReport]
    /\ stamp = [k \in Providers \cup Stages \cup {"full_report"} |-> 0]
    /\ shown = Blank
    /\ status = "none"
    /\ trace = <<>>
    /\ hist = [fn \in Providers |-> NoCall]
    /\ sinceRun = 0
    /\ runs = 0
    /\ faults = 0

\* ------------------------------------------------------ script (re)starts
\* main_app with a key missing: load_api_keys reports it and returns None,
\* and main_app returns.
MissingKey ==
    /\ pc = "idle"
    /\ ~load_api_keys.ok
    /\ shown' = [Blank EXCEPT !.kind = load_api_keys.missing]
    /\ status' = "refused"
    /\ UNCHANGED <<secrets, exa_available, pc, company_url, linkedin_url,
                   attempt, frame, context, cache, session_state, stamp, trace,
                   hist, sinceRun, runs, faults>>

\* A script run in which `st.button(...) and company_url and linkedin_url`
\* is false (no click, or an empty input): only the display block runs.
Rerun ==
    /\ pc = "idle"
    /\ load_api_keys.ok
    /\ shown' = Display(session_state)
    /\ status' = "displayed"
    /\ UNCHANGED <<secrets, exa_available, pc, company_url, linkedin_url,
                   attempt, frame, context, cache, session_state, stamp, trace,
                   hist, sinceRun, runs, faults>>

\* "Analyze Company" clicked with both inputs non-empty: the run starts.  The
\* user enters the website and the LinkedIn page of one company c.  The
\* previous run's calls move to hist, and the page shows the spinner.
AnalyzeCompany ==
    /\ pc = "idle"
    /\ load_api_keys.ok
    /\ runs < MaxRuns
    /\ \E c \in Urls :
          /\ company_url' = c
          /\ linkedin_url' = c
    /\ runs' = runs + 1
    /\ pc' = PcOrder[1]
    /\ attempt' = 0
    /\ frame' = UnsetFrame
    /\ context' = UnsetContext
    /\ trace' = <<>>
    /\ status' = "running"
    /\ hist' = [fn \in Providers |->
                  IF Called(fn)
                  THEN [arg |-> ArgOf(fn), result |-> frame[fn], age |-> sinceRun]
                  ELSE hist[fn]]
    /\ sinceRun' = 0
    /\ shown' = [Blank EXCEPT !.kind = "spinner"]
    /\ UNCHANGED <<secrets, exa_available, cache, session_state, stamp, faults>>

\* Wall-clock time passes between script runs.  A run lasts a few minutes at
\* most (thirteen requests of 30 s and two sleeps), far less than one
\* TimeStep, so the clock is not advanced inside a run.
Tick ==
    /\ pc = "idle"
    /\ runs > 0
    /\ sinceRun < TTL
    /\ sinceRun' = Later(sinceRun)
    /\ cache' = [fn \in Cached |-> [a \in Urls |->
                   IF cache[fn][a] = NoEntry THEN NoEntry
                   ELSE [cache[fn][a] EXCEPT !.age = Later(@)]]]
    /\ hist' = [fn \in Providers |->
                  IF hist[fn] = NoCall THEN NoCall
                  ELSE [hist[fn] EXCEPT !.age = Later(@)]]
    /\ UNCHANGED <<secrets, exa_available, pc, company_url, linkedin_url,
                   attempt, frame, context, session_state, stamp, shown, status,
                   trace, runs, faults>>

\* A call meets a failing response only while the fault budget lasts; the
\* retries of one call count once.
Allowed(o) == o = "ok" \/ attempt > 0 \/ faults < MaxFaults
Count(o) == IF o = "ok" \/ attempt > 0 THEN faults ELSE faults + 1
\* A permanent failure (a 4xx for this URL and key) repeats on every retry
\* of the same request; a transient one may or may not.
LastResponse ==
    LET idx == {i \in 1..Len(trace) : trace[i].ev # "sleep"} IN
    trace[CHOOSE i \in idx : \A j \in idx : j <= i].ev
Responses == {e \in {"ok", "transient", "permanent"} :
                 attempt > 0 /\ LastResponse = "permanent" => e = "permanent"}

\* -------------------------------------------------------- provider fetches
\* get_jina_search_results, served by st.cache_data
JinaHit ==
    /\ pc = "jina_results"
    /\ Live(Lookup("jina_results", company_url))
    /\ frame' = [frame EXCEPT !.jina_results = Lookup("jina_results", company_url).value]
    /\ trace' = Append(trace, Event("jina_results", "hit"))
    /\ pc' = After(pc)
    /\ UNCHANGED <<secrets, exa_available, company_url, linkedin_url, attempt,
                   context, cache, session_state, stamp, shown, status, hist,
                   sinceRun, runs, faults>>

\* One iteration of the retry loop of get_jina_search_results.
JinaAttempt ==
    /\ pc = "jina_results"
    /\ ~Live(Lookup("jina_results", company_url))
    /\ \E o \in Responses :
        /\ Allowed(o)
        /\ faults' = Count(o)
        /\ IF o = "ok"
           THEN LET v == Data("jina_results", company_url, runs) IN
                /\ frame' = [frame EXCEPT !.jina_results = v]
                /\ cache' = Store("jina_results", company_url, v)
                /\ trace' = Append(trace, Event("jina_results", o))
                /\ attempt' = 0
                /\ pc' = After(pc)
           ELSE IF ~LastAttempt(attempt)
           THEN /\ trace' = IF SleepsAfter(attempt)
                            THEN trace \o <<Event("jina_results", o),
                                            Event("jina_results", "sleep")>>
                            ELSE Append(trace, Event("jina_results", o))
                /\ attempt' = attempt + 1
                /\ UNCHANGED <<frame, cache, pc>>
           ELSE /\ frame' = [frame EXCEPT !.jina_results = None]
                /\ cache' = Store("jina_results", company_url, None)
                /\ trace' = IF SleepsAfter(attempt)
                            THEN trace \o <<Event("jina_results", o),
                                            Event("jina_results", "sleep")>>
                            ELSE Append(trace, Event("jina_results", o))
                /\ attempt' = 0
                /\ pc' = After(pc)
    /\ UNCHANGED <<secrets, exa_available, company_url, linkedin_url, context,
                   session_state, stamp, shown, status, hist, sinceRun, runs>>

\* exa_results = get_exa_search_results(...) if exa_available else None
ExaSkip ==
    /\ pc = "exa_results"
    /\ ~exa_available
    /\ frame' = [frame EXCEPT !.exa_results = None]
    /\ pc' = After(pc)
    /\ UNCHANGED <<secrets, exa_available, company_url, linkedin_url, attempt,
                   context, cache, session_state, stamp, shown, status, trace, hist,
                   sinceRun, runs, faults>>

ExaHit ==
    /\ pc = "exa_results"
    /\ exa_available
    /\ Live(Lookup("exa_results", company_url))
    /\ frame' = [frame EXCEPT !.exa_results = Lookup("exa_results", company_url).value]
    /\ trace' = Append(trace, Event("exa_results", "hit"))
    /\ pc' = After(pc)
    /\ UNCHANGED <<secrets, exa_available, company_url, linkedin_url, attempt,
                   context, cache, session_state, stamp, shown, status, hist,
                   sinceRun, runs, faults>>

\* get_exa_search_results: one call, any exception becomes None
ExaCall ==
    /\ pc = "exa_results"
    /\ exa_available
    /\ ~Live(Lookup("exa_results", company_url))
    /\ \E o \in {"ok", "http_error"} :
        /\ Allowed(o)
        /\ faults' = Count(o)
        /\ LET v == IF o = "ok" THEN Data("exa_results", company_url, runs) ELSE None IN
           /\ frame' = [frame EXCEPT !.exa_results = v]
           /\ cache' = Store("exa_results", company_url, v)
        /\ trace' = Append(trace, Event("exa_results", o))
    /\ pc' = After(pc)
    /\ UNCHANGED <<secrets, exa_available, company_url, linkedin_url, attempt,
                   context, session_state, stamp, shown, status, hist, sinceRun, runs>>

\* get_linkedin_company_data / get_linkedin_company_posts: one POST each,
\* a RequestException becomes None; neither is decorated with st.cache_data.
Linkedin(fn) ==
    /\ pc = fn
    /\ \E o \in {"ok", "http_error"} :
        /\ Allowed(o)
        /\ faults' = Count(o)
        /\ frame' = [frame EXCEPT ![fn] =
                        IF o = "ok" THEN Data(fn, linkedin_url, runs) ELSE None]
        /\ trace' = Append(trace, Event(fn, o))
    /\ pc' = After(pc)
    /\ UNCHANGED <<secrets, exa_available, company_url, linkedin_url, attempt,
                   context, cache, session_state, stamp, shown, status, hist,
                   sinceRun, runs>>

LinkedinData == Linkedin("linkedin_data")
LinkedinPosts == Linkedin("linkedin_posts")

\* "Store raw data in session state" and "Prepare context for analysis"
StoreRaw ==
    /\ pc = "store_raw"
    /\ session_state' = [k \in DOMAIN session_state |->
                           IF k \in Providers THEN frame[k] ELSE session_state[k]]
    /\ stamp' = [k \in DOMAIN stamp |-> IF k \in Providers THEN runs ELSE stamp[k]]
    /\ context' = [k \in Providers |->
                     IF k = "exa_results" THEN ExaDicts(frame[k]) ELSE frame[k]]
    /\ pc' = After(pc)
    /\ UNCHANGED <<secrets, exa_available, company_url, linkedin_url, attempt,
                   frame, cache, shown, status, trace, hist, sinceRun, runs,
                   faults>>

\* ------------------------------------------------------------- completions
\* process_with_openrouter: one POST; a RequestException becomes None, a 200
\* body without ['choices'][0]['message']['content'] raises KeyError, which
\* nothing in main_app catches: the script run ends with the exception.
Completion(stage) ==
    /\ pc = stage
    /\ \E o \in {"ok", "http_error", "malformed"} :
        /\ Allowed(o)
        /\ faults' = Count(o)
        /\ trace' = Append(trace, Event(stage, o))
        /\ IF o = "malformed"
           THEN /\ pc' = "idle"
                /\ status' = "raised"
                /\ shown' = [Blank EXCEPT !.kind = "exception"]
                /\ UNCHANGED frame
           ELSE /\ frame' = [frame EXCEPT ![stage] =
                               IF o = "ok" THEN Text(stage, runs) ELSE None]
                /\ pc' = After(pc)
                /\ UNCHANGED <<status, shown>>
    /\ UNCHANGED <<secrets, exa_available, company_url, linkedin_url, attempt,
                   context, cache, session_state, stamp, hist, sinceRun, runs>>

AnalyzeCompanyInfo == Completion("company_info")
AnalyzeCompetitors == Completion("competitor_analysis")
AnalyzeLinkedinProfile == Completion("linkedin_profile_analysis")
AnalyzeLinkedinPosts == Completion("linkedin_posts_analysis")
GenerateExecutiveSummary == Completion("executive_summary")

\* "Store analyses in session state"
StoreAnalyses ==
    /\ pc = "store_analyses"
    /\ session_state' = [k \in DOMAIN session_state |->
                           IF k \in AnalysisStages THEN frame[k] ELSE session_state[k]]
    /\ stamp' = [k \in DOMAIN stamp |-> IF k \in AnalysisStages THEN runs ELSE stamp[k]]
    /\ pc' = After(pc)
    /\ UNCHANGED <<secrets, exa_available, company_url, linkedin_url, attempt,
                   frame, context, cache, shown, status, trace, hist, sinceRun,
                   runs, faults>>

\* st.session_state.executive_summary = ...; "Compile full report"; the
\* display block at the end of main_app.
Compile ==
    /\ pc = "compile"
    /\ session_state' = [session_state EXCEPT
                           !.executive_summary = frame.executive_summary,
                           !.full_report = FullReport(frame)]
    /\ stamp' = [stamp EXCEPT !.executive_summary = runs, !.full_report = runs]
    /\ shown' = Display(session_state')
    /\ status' = "completed"
    /\ pc' = After(pc)
    /\ UNCHANGED <<secrets, exa_available, company_url, linkedin_url, attempt,
                   frame, context, cache, trace, hist, sinceRun, runs, faults>>

Next ==
    \/ MissingKey
    \/ Rerun
    \/ AnalyzeCompany
    \/ Tick
    \/ JinaHit
    \/ JinaAttempt
    \/ ExaSkip
    \/ ExaHit
    \/ ExaCall
    \/ LinkedinData
    \/ LinkedinPosts
    \/ StoreRaw
    \/ AnalyzeCompanyInfo
    \/ AnalyzeCompetitors
    \/ AnalyzeLinkedinProfile
    \/ AnalyzeLinkedinPosts
    \/ StoreAnalyses
    \/ GenerateExecutiveSummary
    \/ Compile

Spec == Init /\ [][Next]_vars

\* ================================================================= claims
\* What the events of the run in progress (or of the last run) say.
EventsOf(fn) == {i \in 1..Len(trace) : trace[i].fn = fn}
Requests(fn) == Cardinality({i \in EventsOf(fn) : trace[i].ev \in HttpEvents})
Sleeps(fn) == Cardinality({i \in EventsOf(fn) : trace[i].ev = "sleep"})
Kinds(fn) == {trace[i].ev : i \in {j \in EventsOf(fn) : trace[j].ev \in HttpEvents}}
Returned(fn) == frame[fn] # Unset
Failures == {"transient", "permanent", "http_error", "malformed"}
RequiredKeys == {"jina", "openrouter", "rapidapi"}
                   \cup (IF exa_available THEN {"exa"} ELSE {})

\* C1: a search call whose every HTTP attempt fails with a transient error
\* issues exactly max_retries = 3 requests and then returns None: it has not
\* returned after fewer, and no call ever issues a 4th request.
C1_ThreeAttemptsThenNone ==
    /\ Requests("jina_results") <= 3
    /\ (Requests("jina_results") >= 1 /\ Kinds("jina_results") = {"transient"})
          => /\ Returned("jina_results") <=> Requests("jina_results") = 3
             /\ Returned("jina_results") => frame.jina_results = None
C1_Witness ==
    /\ Kinds("jina_results") = {"transient"}
    /\ Requests("jina_results") = 3
    /\ frame.jina_results = None
    /\ pc = "exa_results"

\* C2: a call that meets a permanent (4xx) failure issues exactly one
\* request, sleeps for no delay, and has returned its failure at once.
C2_PermanentNotRetried ==
    \A fn \in Providers \cup Stages :
        (Kinds(fn) \cap {"permanent", "http_error"}) # {}
            => /\ Requests(fn) = 1
               /\ Sleeps(fn) = 0
               /\ frame[fn] = None

\* C3: after a cached provider call returned None for some argument, the
\* next call with the same argument within the ttl requests the provider
\* again.
C3_FailureNotCached ==
    \A fn \in Cached :
        ( /\ Called(fn) /\ Returned(fn)
          /\ hist[fn].result = None
          /\ hist[fn].arg = ArgOf(fn)
          /\ hist[fn].age < TTL )
            => Requests(fn) >= 1

\* C4: a provider call repeated with the same argument within the ttl after
\* a successful first call makes no request and returns the first response;
\* for all four provider calls of main_app.
C4_SecondCallServedFromCache ==
    \A fn \in Providers :
        ( /\ Called(fn)
          /\ hist[fn].result \notin {Unset, None}
          /\ hist[fn].arg = ArgOf(fn)
          /\ hist[fn].age < TTL )
            => /\ Requests(fn) = 0
               /\ frame[fn] = hist[fn].result

\* C5: when the completion call of a stage fails, the stage's output is the
\* failure placeholder, the run is not aborted, and a finished run's report
\* has all five sections, each holding its own stage's output.
C5_FailedStageYieldsSentinel ==
    \A s \in Stages :
        (Kinds(s) \cap Failures) # {}
            => /\ status # "raised"
               /\ frame[s] = None
               /\ status = "completed" =>
                     /\ Len(session_state.full_report) = 5
                     /\ \A i \in 1..5 :
                           LET sec == session_state.full_report[i] IN
                           sec.body = IF Kinds(sec.section) = {"ok"}
                                      THEN Text(sec.section, runs)
                                      ELSE Fmt(None)

\* C6: no provider or completion call raises out of its adapter, so no run
\* started with all keys present ends with an exception.
C6_NoCallRaises == status # "raised"

\* C7: within a run, every analysis stage starts only after all four
\* provider fetches have returned, the executive summary only after all four
\* analyses have produced output, and the report is compiled only after the
\* executive summary has returned.
C7_DependencyOrder ==
    /\ \A s \in AnalysisStages :
          (pc = s \/ EventsOf(s) # {})
             => \A p \in Providers : Returned(p) /\ context[p] # Unset
    /\ (pc = "executive_summary" \/ EventsOf("executive_summary") # {})
          => \A s \in AnalysisStages : Returned(s)
    /\ (pc = "compile" \/ (runs > 0 /\ stamp.full_report = runs))
          => \A s \in Stages : Returned(s)
C7_Witness ==
    /\ status = "completed"
    /\ stamp.full_report = runs
    /\ EventsOf("executive_summary") # {}
    /\ \E s \in AnalysisStages : frame[s] = None

\* C8: with a required key absent (jina, openrouter, rapidapi, and exa when
\* exa_py is installed) no run ever starts and no request is made, and the
\* refusal names a key that is indeed missing.
C8_NoRunWithoutKeys ==
    (RequiredKeys \ secrets) # {}
        => /\ pc = "idle"
           /\ runs = 0
           /\ trace = <<>>
           /\ frame = UnsetFrame
           /\ \A k \in DOMAIN stamp : stamp[k] = 0
           /\ status \in {"none", "refused"}
           /\ status = "refused" => shown.kind \in RequiredKeys \ secrets
C8_Witness ==
    /\ status = "refused"
    /\ secrets = KeyNames \ {"rapidapi"}
    /\ shown.kind = "rapidapi"

\* C9: with exa_py not installed the similarity search is never called: its
\* result, its session entry and its context entry are None once assigned,
\* its cache stays empty, the other three fetches are made, and the run goes
\* on to the stages and the report; a run ends early only on the exception
\* of a completion, never on the missing provider.
C9_ExaUnavailableIsAbsent ==
    ~exa_available
        => /\ EventsOf("exa_results") = {}
           /\ \A a \in Urls : cache.exa_results[a] = NoEntry
           /\ frame.exa_results \in {Unset, None}
           /\ session_state.exa_results \in {Unset, None}
           /\ context.exa_results \in {Unset, None}
           /\ (pc \notin {"idle", "jina_results", "exa_results"} \/ status \in {"completed", "raised"})
                 => frame.exa_results = None
           /\ context.jina_results # Unset => context.exa_results = None
           /\ status = "completed"
                 => /\ \A p \in Providers \ {"exa_results"} : Called(p)
                    /\ \A s \in Stages : Requests(s) = 1
                    /\ stamp.full_report = runs
                    /\ Len(session_state.full_report) = 5
           /\ status = "raised" => trace[Len(trace)].ev = "malformed"
C9_Witness ==
    /\ ~exa_available
    /\ status = "completed"
    /\ context.exa_results = None
    /\ context.jina_results \notin {Unset, None}
    /\ \A p \in Providers \ {"exa_results"} : Requests(p) >= 1

\* C10: between script runs, whenever full_report is in the session state,
\* the raw results and the analyses in the session state were all assigned
\* by the run that assigned full_report.
C10_SessionFromOneRun ==
    (pc = "idle" /\ session_state.full_report # NoReport)
        => \A k \in Providers \cup Stages : stamp[k] = stamp.full_report

====
